---- MODULE Spec2Model ----
(***************************************************************************)
(* Provider adapters of simplemind: Gemini, Groq and Ollama.               *)
(*                                                                         *)
(* One adapter instance is shared by a set of concurrent callers.  Each    *)
(* caller invokes send_conversation, structured_response, generate_text    *)
(* or (Ollama) generate_stream_text; a method runs as a sequence of steps  *)
(* whose boundaries are the attribute accesses (client, structured_client) *)
(* and the transport calls, so that callers interleave where threads can.  *)
(* The transport, the schema-constrained decoder and the credential lookup *)
(* are the environment: their answers are nondeterministic choices.        *)
(*                                                                         *)
(* functools.cached_property holds no lock (Python 3.12 and later): its    *)
(* lookup and its store are separate steps.  The ollama package is taken   *)
(* to be installed (the ImportError branch of Ollama.client is not taken). *)
(* The @logger decorator is instrumentation: it passes arguments, results  *)
(* and exceptions through unchanged.                                       *)
(***************************************************************************)
EXTENDS Naturals, Sequences, FiniteSets

\* ------------------------------------------------------------------ bounds
MaxMsgs == 3        \* longest conversation submitted
MaxChunks == 2      \* longest chunk sequence a transport stream yields
MaxOps == 2         \* operations invoked on the adapter instance, in total

\* two concurrent callers share the adapter instance
Callers == {"c1", "c2"}

\* --------------------------------------------------------------- constants
NoneVal == "None"                       \* Python's None
Adapters == {"Gemini", "Groq", "Ollama"}

GEMINI_PROVIDER_NAME == "gemini"
GEMINI_DEFAULT_MODEL == "models/gemini-1.5-flash-latest"
GROQ_PROVIDER_NAME == "groq"
GROQ_DEFAULT_MODEL == "llama3-8b-8192"
OLLAMA_PROVIDER_NAME == "ollama"
OLLAMA_DEFAULT_MODEL == "llama3.2"

\* NAME / __name__ of the adapter class
NAME(a) ==
    IF a = "Gemini" THEN GEMINI_PROVIDER_NAME
    ELSE IF a = "Groq" THEN GROQ_PROVIDER_NAME
    ELSE OLLAMA_PROVIDER_NAME

\* DEFAULT_MODEL of the adapter class
DEFAULT_MODEL(a) ==
    IF a = "Gemini" THEN GEMINI_DEFAULT_MODEL
    ELSE IF a = "Groq" THEN GROQ_DEFAULT_MODEL
    ELSE OLLAMA_DEFAULT_MODEL

\* ------------------------------------------------------------ input domains
Texts == {"hi", "yo"}                   \* message texts
Overrides == {NoneVal, "m2"}            \* per-call model: not given, or "m2"
Credentials == {NoneVal, "secret"}      \* api key / host url after __init__
ChunkTexts == {"Hel", "lo"}             \* contents of streamed chunks
DecoderValues == {"M_instance", "dict_valid", "dict_partial", NoneVal}

NoResp == [id |-> 0, content |-> NoneVal]
\* transport responses: two distinct payloads, one with a null content
Responses == {[id |-> 1, content |-> "ok"], [id |-> 2, content |-> NoneVal]}

RoleAt(i, n) == IF (n - i) % 2 = 0 THEN "user" ELSE "assistant"

\* conversations of 0..MaxMsgs messages, roles alternating and ending in "user"
Conversations ==
    UNION { { [i \in 1..n |-> [role |-> RoleAt(i, n), text |-> t[i]]] :
                t \in [1..n -> Texts] } : n \in 0..MaxMsgs }

NoMsg == [role |-> NoneVal, text |-> NoneVal, raw |-> NoResp,
          llm_model |-> NoneVal, llm_provider |-> NoneVal]
NoResult == [kind |-> "none", type |-> NoneVal, cause |-> NoneVal,
             msg |-> NoMsg, value |-> NoneVal]
NoLoc == [client |-> 0, structured |-> 0, i |-> 0, chunk |-> NoneVal]
NoStream == [open |-> FALSE, yielded |-> <<>>, ended |-> FALSE, failed |-> FALSE]
NoConversation == [messages |-> <<>>, llm_model |-> NoneVal]
NoOp == [name |-> "none", messages |-> <<>>, llm_model |-> NoneVal]

\* Python truthiness of an optional string; `a or b`
Truthy(s) == s \notin {NoneVal, ""}
Or(a, b) == IF Truthy(a) THEN a ELSE b

VARIABLES
    adapter,     \* class of the adapter instance
    api_key,     \* self.api_key (Gemini, Groq) / self.host_url (Ollama)
    model_name,  \* Gemini's self.model_name
    cache,       \* instance __dict__ entries written by cached_property (0: absent)
    built,       \* handles constructed so far, per kind
    conversation,\* each caller's Conversation object (owned by the caller)
    pc,          \* each caller's position
    op,          \* each caller's current invocation, its arguments as passed
    loc,         \* each caller's locals
    sent,        \* transport calls made by each caller's current invocation
    result,      \* what each caller's current invocation returned or raised
    stream,      \* the transport stream of each caller's generate_stream_text
    pulled,      \* chunks handed to each caller by its generator
    nops         \* invocations so far

vars == <<adapter, api_key, model_name, cache, built, conversation, pc, op,
          loc, sent, result, stream, pulled, nops>>

\* state after __init__: the credential is whatever `arg or settings lookup` gave
Init ==
    /\ adapter \in Adapters
    /\ api_key \in Credentials
    /\ model_name = IF adapter = "Gemini" THEN GEMINI_DEFAULT_MODEL ELSE NoneVal
    /\ cache = [client |-> 0, structured_client |-> 0]
    /\ built = [client |-> 0, structured_client |-> 0]
    /\ conversation = [c \in Callers |-> NoConversation]
    /\ pc = [c \in Callers |-> "idle"]
    /\ op = [c \in Callers |-> NoOp]
    /\ loc = [c \in Callers |-> NoLoc]
    /\ sent = [c \in Callers |-> <<>>]
    /\ result = [c \in Callers |-> NoResult]
    /\ stream = [c \in Callers |-> NoStream]
    /\ pulled = [c \in Callers |-> <<>>]
    /\ nops = 0

\* ----------------------------------------------------------------- helpers
Methods(a) ==
    {"send_conversation", "structured_response", "generate_text"}
        \cup (IF a = "Ollama" THEN {"generate_stream_text"} ELSE {})

\* which handle the method body reads first
Wants(a, name) ==
    IF name = "structured_response" THEN "structured_client"
    ELSE IF a = "Groq" /\ name = "generate_text" THEN "structured_client"
    ELSE "client"

\* argument binding: a required keyword that is missing, or an unexpected one
BindError(a, name, llm_model) ==
    \/ a = "Groq" /\ name = "generate_text" /\ llm_model = NoneVal
    \/ a = "Groq" /\ name = "structured_response" /\ llm_model # NoneVal
    \/ a = "Ollama" /\ name = "generate_stream_text" /\ llm_model = NoneVal

\* Gemini reads its handle inside the try block in these two methods
InGeminiTry(c) ==
    adapter = "Gemini" /\ op[c].name \in {"structured_response", "generate_text"}

Raised(type, cause) ==
    [NoResult EXCEPT !.kind = "raise", !.type = type, !.cause = cause]

\* an exception raised by the handle access or the transport, as the caller of
\* the method sees it: wrapped by Gemini's `except Exception`, raw otherwise
Escapes(c, type) ==
    IF InGeminiTry(c) THEN Raised("RuntimeError", type) ELSE Raised(type, NoneVal)

Finish(c, res) ==
    /\ result' = [result EXCEPT ![c] = res]
    /\ pc' = [pc EXCEPT ![c] = "done"]

\* one transport call, as the transport saw it: the handle it went through,
\* the model it named, the message roles and texts it carried, and its outcome
CallRec(kind, via, handle, model, roles, texts, ok, reply) ==
    [kind |-> kind, via |-> via, handle |-> handle, model |-> model,
     roles |-> roles, texts |-> texts, ok |-> ok, reply |-> reply]

RolesOf(dicts) == [i \in 1..Len(dicts) |-> dicts[i].role]
ContentsOf(dicts) == [i \in 1..Len(dicts) |-> dicts[i].content]

Log(c, rec) == sent' = [sent EXCEPT ![c] = Append(@, rec)]

\* where the method goes once it holds the raw client
AfterClient(c) ==
    IF Wants(adapter, op[c].name) = "structured_client" THEN "wrap" ELSE "body"

\* ------------------------------------------------------------- invocation
Invoke(c) ==
    /\ pc[c] \in {"idle", "done"}
    /\ nops < MaxOps
    /\ nops' = nops + 1
    /\ \E name \in Methods(adapter), llm_model \in Overrides,
          conv \in Conversations :
        /\ name # "send_conversation" => conv = <<>>
        /\ op' = [op EXCEPT ![c] =
                    [name |-> name, messages |-> conv, llm_model |-> llm_model]]
        /\ conversation' = [conversation EXCEPT ![c] =
                    IF name = "send_conversation"
                    THEN [messages |-> conv, llm_model |-> llm_model]
                    ELSE NoConversation]
        /\ IF BindError(adapter, name, llm_model)
           THEN Finish(c, Raised("TypeError", NoneVal))
           ELSE /\ result' = [result EXCEPT ![c] = NoResult]
                /\ pc' = [pc EXCEPT ![c] =
                     IF adapter = "Groq" THEN "build_client"
                     ELSE IF Wants(adapter, name) = "client" THEN "get_client"
                     ELSE "get_structured"]
    /\ loc' = [loc EXCEPT ![c] = NoLoc]
    /\ sent' = [sent EXCEPT ![c] = <<>>]
    /\ stream' = [stream EXCEPT ![c] = NoStream]
    /\ pulled' = [pulled EXCEPT ![c] = <<>>]
    /\ UNCHANGED <<adapter, api_key, model_name, cache, built>>


\* ------------------------------------------------------ handle acquisition
\* cached_property.__get__ for `client` (Gemini, Ollama)
CachedClient(c) ==
    /\ pc[c] = "get_client"
    /\ IF cache.client # 0
       THEN /\ loc' = [loc EXCEPT ![c].client = cache.client]
            /\ pc' = [pc EXCEPT ![c] = AfterClient(c)]
       ELSE /\ pc' = [pc EXCEPT ![c] = "build_client"]
            /\ UNCHANGED loc
    /\ UNCHANGED <<adapter, api_key, conversation, model_name, cache, built, op, sent,
                   result, stream, pulled, nops>>

\* cached_property.__get__ for `structured_client` (Gemini, Ollama); on a miss
\* Gemini's body starts by reading self.client, Ollama's builds at once
CachedStructuredClient(c) ==
    /\ pc[c] = "get_structured"
    /\ IF cache.structured_client # 0
       THEN /\ loc' = [loc EXCEPT ![c].structured = cache.structured_client]
            /\ pc' = [pc EXCEPT ![c] = "body"]
       ELSE /\ pc' = [pc EXCEPT ![c] =
                 IF adapter = "Gemini" THEN "get_client" ELSE "build_structured"]
            /\ UNCHANGED loc
    /\ UNCHANGED <<adapter, api_key, conversation, model_name, cache, built, op, sent,
                   result, stream, pulled, nops>>

\* Gemini.client
GeminiClient(c) ==
    /\ adapter = "Gemini"
    /\ pc[c] = "build_client"
    /\ IF ~Truthy(api_key)
       THEN /\ Finish(c, Escapes(c, "ValueError"))
            /\ UNCHANGED <<model_name, cache, built, loc>>
       ELSE /\ model_name' = GEMINI_DEFAULT_MODEL
            /\ built' = [built EXCEPT !.client = @ + 1]
            /\ cache' = [cache EXCEPT !.client = built.client + 1]
            /\ loc' = [loc EXCEPT ![c].client = built.client + 1]
            /\ pc' = [pc EXCEPT ![c] = AfterClient(c)]
            /\ UNCHANGED result
    /\ UNCHANGED <<adapter, api_key, conversation, op, sent, stream, pulled, nops>>

\* Groq.client: a plain property, evaluated on every access
GroqClient(c) ==
    /\ adapter = "Groq"
    /\ pc[c] = "build_client"
    /\ IF ~Truthy(api_key)
       THEN /\ Finish(c, Escapes(c, "ValueError"))
            /\ UNCHANGED <<built, loc>>
       ELSE /\ built' = [built EXCEPT !.client = @ + 1]
            /\ loc' = [loc EXCEPT ![c].client = built.client + 1]
            /\ pc' = [pc EXCEPT ![c] = AfterClient(c)]
            /\ UNCHANGED result
    /\ UNCHANGED <<adapter, api_key, conversation, model_name, cache, op, sent, stream,
                   pulled, nops>>

\* Ollama.client
OllamaClient(c) ==
    /\ adapter = "Ollama"
    /\ pc[c] = "build_client"
    /\ IF ~Truthy(api_key)
       THEN /\ Finish(c, Escapes(c, "ValueError"))
            /\ UNCHANGED <<cache, built, loc>>
       ELSE /\ built' = [built EXCEPT !.client = @ + 1]
            /\ cache' = [cache EXCEPT !.client = built.client + 1]
            /\ loc' = [loc EXCEPT ![c].client = built.client + 1]
            /\ pc' = [pc EXCEPT ![c] = AfterClient(c)]
            /\ UNCHANGED result
    /\ UNCHANGED <<adapter, api_key, conversation, model_name, op, sent, stream, pulled, nops>>

\* Gemini.structured_client: instructor.from_gemini(self.client), cached
GeminiStructuredClient(c) ==
    /\ adapter = "Gemini"
    /\ pc[c] = "wrap"
    /\ built' = [built EXCEPT !.structured_client = @ + 1]
    /\ cache' = [cache EXCEPT !.structured_client = built.structured_client + 1]
    /\ loc' = [loc EXCEPT ![c].structured = built.structured_client + 1]
    /\ pc' = [pc EXCEPT ![c] = "body"]
    /\ UNCHANGED <<adapter, api_key, conversation, model_name, op, sent, result, stream,
                   pulled, nops>>

\* Groq.structured_client: instructor.from_groq(self.client), on every access
GroqStructuredClient(c) ==
    /\ adapter = "Groq"
    /\ pc[c] = "wrap"
    /\ built' = [built EXCEPT !.structured_client = @ + 1]
    /\ loc' = [loc EXCEPT ![c].structured = built.structured_client + 1]
    /\ pc' = [pc EXCEPT ![c] = "body"]
    /\ UNCHANGED <<adapter, api_key, conversation, model_name, cache, op, sent, result,
                   stream, pulled, nops>>

\* Ollama.structured_client: built from host_url without looking at it
OllamaStructuredClient(c) ==
    /\ adapter = "Ollama"
    /\ pc[c] = "build_structured"
    /\ built' = [built EXCEPT !.structured_client = @ + 1]
    /\ cache' = [cache EXCEPT !.structured_client = built.structured_client + 1]
    /\ loc' = [loc EXCEPT ![c].structured = built.structured_client + 1]
    /\ pc' = [pc EXCEPT ![c] = "body"]
    /\ UNCHANGED <<adapter, api_key, conversation, model_name, op, sent, result, stream,
                   pulled, nops>>

Acquire(c) ==
    \/ CachedClient(c)
    \/ CachedStructuredClient(c)
    \/ GeminiClient(c)
    \/ GroqClient(c)
    \/ OllamaClient(c)
    \/ GeminiStructuredClient(c)
    \/ GroqStructuredClient(c)
    \/ OllamaStructuredClient(c)

\* --------------------------------------------------------------- Gemini
\* the Message Gemini.send_conversation returns
GeminiMessage(response) ==
    [role |-> "assistant", text |-> response.content, raw |-> response,
     llm_model |-> model_name, llm_provider |-> GEMINI_PROVIDER_NAME]

\* chat = self.client.start_chat(): opens a chat session on the handle
GeminiStartChat(c) ==
    /\ adapter = "Gemini"
    /\ pc[c] = "body"
    /\ op[c].name = "send_conversation"
    /\ Log(c, CallRec("start_chat", "client", loc[c].client, model_name,
                      <<>>, <<>>, TRUE, NoResp))
    /\ loc' = [loc EXCEPT ![c].i = 1]
    /\ pc' = [pc EXCEPT ![c] = "replay"]
    /\ UNCHANGED <<adapter, api_key, conversation, model_name, cache, built, op, result,
                   stream, pulled, nops>>

\* for msg in conversation.messages[:-1]: chat.send_message(msg.text)
GeminiReplay(c) ==
    /\ adapter = "Gemini"
    /\ pc[c] = "replay"
    /\ loc[c].i < Len(conversation[c].messages)
    /\ LET text == conversation[c].messages[loc[c].i].text IN
       \/ \E r \in Responses :
            /\ Log(c, CallRec("send_message", "client", loc[c].client,
                              model_name, <<>>, <<text>>, TRUE, r))
            /\ loc' = [loc EXCEPT ![c].i = @ + 1]
            /\ UNCHANGED <<pc, result>>
       \/ /\ Log(c, CallRec("send_message", "client", loc[c].client,
                            model_name, <<>>, <<text>>, FALSE, NoResp))
          /\ Finish(c, Raised("TransportError", NoneVal))
          /\ UNCHANGED loc
    /\ UNCHANGED <<adapter, api_key, conversation, model_name, cache, built, op, stream,
                   pulled, nops>>

\* try: response = chat.send_message(conversation.messages[-1].text)
\* except Exception as e: raise RuntimeError(...) from e
\* return Message(...)
GeminiSendFinal(c) ==
    /\ adapter = "Gemini"
    /\ pc[c] = "replay"
    /\ loc[c].i >= Len(conversation[c].messages)
    /\ IF Len(conversation[c].messages) = 0
       THEN /\ Finish(c, Raised("RuntimeError", "IndexError"))
            /\ UNCHANGED sent
       ELSE LET text == conversation[c].messages[Len(conversation[c].messages)].text IN
            \/ \E r \in Responses :
                 /\ Log(c, CallRec("send_message", "client", loc[c].client,
                                   model_name, <<>>, <<text>>, TRUE, r))
                 /\ Finish(c, [NoResult EXCEPT !.kind = "return",
                                               !.msg = GeminiMessage(r)])
            \/ /\ Log(c, CallRec("send_message", "client", loc[c].client,
                                 model_name, <<>>, <<text>>, FALSE, NoResp))
               /\ Finish(c, Raised("RuntimeError", "TransportError"))
    /\ UNCHANGED <<adapter, api_key, conversation, model_name, cache, built, op, loc,
                   stream, pulled, nops>>

\* Gemini.structured_response: the llm_model option is popped and not used; the
\* request goes to the handle's own model; the decoder's value is returned as is
GeminiStructuredResponse(c) ==
    /\ adapter = "Gemini"
    /\ pc[c] = "body"
    /\ op[c].name = "structured_response"
    /\ \/ \E v \in DecoderValues :
            /\ Log(c, CallRec("create", "structured_client", loc[c].structured,
                              model_name, <<"user">>, <<"prompt">>, TRUE, NoResp))
            /\ Finish(c, [NoResult EXCEPT !.kind = "return", !.value = v])
       \/ \E e \in {"TransportError", "DecodingError"} :
            /\ Log(c, CallRec("create", "structured_client", loc[c].structured,
                              model_name, <<"user">>, <<"prompt">>, FALSE, NoResp))
            /\ Finish(c, Raised("RuntimeError", e))
    /\ UNCHANGED <<adapter, api_key, conversation, model_name, cache, built, op, loc,
                   stream, pulled, nops>>

\* Gemini.generate_text: the llm_model option is popped and not used
GeminiGenerateText(c) ==
    /\ adapter = "Gemini"
    /\ pc[c] = "body"
    /\ op[c].name = "generate_text"
    /\ \/ \E r \in Responses :
            /\ Log(c, CallRec("generate_content", "client", loc[c].client,
                              model_name, <<>>, <<"prompt">>, TRUE, r))
            /\ Finish(c, [NoResult EXCEPT !.kind = "return",
                                          !.value = r.content])
       \/ /\ Log(c, CallRec("generate_content", "client", loc[c].client,
                            model_name, <<>>, <<"prompt">>, FALSE, NoResp))
          /\ Finish(c, Raised("RuntimeError", "TransportError"))
    /\ UNCHANGED <<adapter, api_key, conversation, model_name, cache, built, op, loc,
                   stream, pulled, nops>>

Gemini(c) ==
    \/ GeminiStartChat(c)
    \/ GeminiReplay(c)
    \/ GeminiSendFinal(c)
    \/ GeminiStructuredResponse(c)
    \/ GeminiGenerateText(c)

\* ----------------------------------------------------------------- Groq
\* the message list built newest first
GroqChatMessagesReversed(messages) ==
    [i \in 1..Len(messages) |->
        [role |-> messages[Len(messages) + 1 - i].role,
         content |-> messages[Len(messages) + 1 - i].text]]

\* [{"role": msg.role, "content": msg.text} for msg in conversation.messages]
GroqChatMessages(messages) ==
    [i \in 1..Len(messages) |->
        [role |-> messages[i].role, content |-> messages[i].text]]

\* the Message with the conversation's llm_model taken as is, no default
GroqMessageNoDefault(llm_model, response) ==
    [role |-> "assistant", text |-> Or(response.content, ""), raw |-> response,
     llm_model |-> llm_model, llm_provider |-> GROQ_PROVIDER_NAME]

\* the Message Groq.send_conversation returns
GroqMessage(llm_model, response) ==
    [role |-> "assistant", text |-> Or(response.content, ""), raw |-> response,
     llm_model |-> Or(llm_model, GROQ_DEFAULT_MODEL),
     llm_provider |-> GROQ_PROVIDER_NAME]

\* Groq.send_conversation: one request carrying the whole message list
GroqSendConversation(c) ==
    /\ adapter = "Groq"
    /\ pc[c] = "body"
    /\ op[c].name = "send_conversation"
    /\ LET messages == GroqChatMessages(conversation[c].messages)
           model == Or(conversation[c].llm_model, GROQ_DEFAULT_MODEL) IN
       \/ \E r \in Responses :
            /\ Log(c, CallRec("create", "client", loc[c].client, model,
                              RolesOf(messages), ContentsOf(messages), TRUE, r))
            /\ Finish(c, [NoResult EXCEPT !.kind = "return",
                                          !.msg = GroqMessage(conversation[c].llm_model, r)])
       \/ /\ Log(c, CallRec("create", "client", loc[c].client, model,
                            RolesOf(messages), ContentsOf(messages), FALSE, NoResp))
          /\ Finish(c, Raised("TransportError", NoneVal))
    /\ UNCHANGED <<adapter, api_key, conversation, model_name, cache, built, op, loc,
                   stream, pulled, nops>>

\* Groq.structured_response: no model is named in the request
GroqStructuredResponse(c) ==
    /\ adapter = "Groq"
    /\ pc[c] = "body"
    /\ op[c].name = "structured_response"
    /\ \/ \E v \in DecoderValues :
            /\ Log(c, CallRec("create", "structured_client", loc[c].structured,
                              NoneVal, <<"user">>, <<"prompt">>, TRUE, NoResp))
            /\ Finish(c, [NoResult EXCEPT !.kind = "return", !.value = v])
       \/ \E e \in {"TransportError", "DecodingError"} :
            /\ Log(c, CallRec("create", "structured_client", loc[c].structured,
                              NoneVal, <<"user">>, <<"prompt">>, FALSE, NoResp))
            /\ Finish(c, Raised(e, NoneVal))
    /\ UNCHANGED <<adapter, api_key, conversation, model_name, cache, built, op, loc,
                   stream, pulled, nops>>

\* Groq.generate_text: goes through the structured client, model=llm_model
GroqGenerateText(c) ==
    /\ adapter = "Groq"
    /\ pc[c] = "body"
    /\ op[c].name = "generate_text"
    /\ \/ \E r \in Responses :
            /\ Log(c, CallRec("create", "structured_client", loc[c].structured,
                              op[c].llm_model, <<"user">>, <<"prompt">>, TRUE, r))
            /\ Finish(c, [NoResult EXCEPT !.kind = "return",
                                          !.value = r.content])
       \/ /\ Log(c, CallRec("create", "structured_client", loc[c].structured,
                            op[c].llm_model, <<"user">>, <<"prompt">>, FALSE, NoResp))
          /\ Finish(c, Raised("TransportError", NoneVal))
    /\ UNCHANGED <<adapter, api_key, conversation, model_name, cache, built, op, loc,
                   stream, pulled, nops>>

Groq(c) ==
    \/ GroqSendConversation(c)
    \/ GroqStructuredResponse(c)
    \/ GroqGenerateText(c)

\* ---------------------------------------------------------------- Ollama
\* [{"role": msg.role, "content": msg.text} for msg in conversation.messages]
OllamaChatMessages(messages) ==
    [i \in 1..Len(messages) |->
        [role |-> messages[i].role, content |-> messages[i].text]]

\* the Message Ollama.send_conversation returns
OllamaMessage(llm_model, response) ==
    [role |-> "assistant", text |-> response.content, raw |-> response,
     llm_model |-> Or(llm_model, OLLAMA_DEFAULT_MODEL),
     llm_provider |-> OLLAMA_PROVIDER_NAME]

\* Ollama.send_conversation: one request carrying the whole message list
OllamaSendConversation(c) ==
    /\ adapter = "Ollama"
    /\ pc[c] = "body"
    /\ op[c].name = "send_conversation"
    /\ LET messages == OllamaChatMessages(conversation[c].messages)
           model == Or(conversation[c].llm_model, OLLAMA_DEFAULT_MODEL) IN
       \/ \E r \in Responses :
            /\ Log(c, CallRec("chat", "client", loc[c].client, model,
                              RolesOf(messages), ContentsOf(messages), TRUE, r))
            /\ Finish(c, [NoResult EXCEPT !.kind = "return",
                                          !.msg = OllamaMessage(conversation[c].llm_model, r)])
       \/ /\ Log(c, CallRec("chat", "client", loc[c].client, model,
                            RolesOf(messages), ContentsOf(messages), FALSE, NoResp))
          /\ Finish(c, Raised("TransportError", NoneVal))
    /\ UNCHANGED <<adapter, api_key, conversation, model_name, cache, built, op, loc,
                   stream, pulled, nops>>

\* response_model.model_validate(v): an instance passes, a dict with every
\* field well typed becomes an instance, anything else is rejected
ModelValidates(v) == v \in {"M_instance", "dict_valid"}

\* Ollama.structured_response
OllamaStructuredResponse(c) ==
    /\ adapter = "Ollama"
    /\ pc[c] = "body"
    /\ op[c].name = "structured_response"
    /\ LET model == Or(op[c].llm_model, OLLAMA_DEFAULT_MODEL) IN
       \/ \E v \in DecoderValues :
            /\ Log(c, CallRec("create", "structured_client", loc[c].structured,
                              model, <<"user">>, <<"prompt">>, TRUE, NoResp))
            /\ IF ModelValidates(v)
               THEN Finish(c, [NoResult EXCEPT !.kind = "return",
                                               !.value = "M_instance"])
               ELSE Finish(c, Raised("ValidationError", NoneVal))
       \/ \E e \in {"TransportError", "DecodingError"} :
            /\ Log(c, CallRec("create", "structured_client", loc[c].structured,
                              model, <<"user">>, <<"prompt">>, FALSE, NoResp))
            /\ Finish(c, Raised(e, NoneVal))
    /\ UNCHANGED <<adapter, api_key, conversation, model_name, cache, built, op, loc,
                   stream, pulled, nops>>

\* Ollama.generate_text
OllamaGenerateText(c) ==
    /\ adapter = "Ollama"
    /\ pc[c] = "body"
    /\ op[c].name = "generate_text"
    /\ LET model == Or(op[c].llm_model, OLLAMA_DEFAULT_MODEL) IN
       \/ \E r \in Responses :
            /\ Log(c, CallRec("chat", "client", loc[c].client, model,
                              <<"user">>, <<"prompt">>, TRUE, r))
            /\ Finish(c, [NoResult EXCEPT !.kind = "return",
                                          !.value = r.content])
       \/ /\ Log(c, CallRec("chat", "client", loc[c].client, model,
                            <<"user">>, <<"prompt">>, FALSE, NoResp))
          /\ Finish(c, Raised("TransportError", NoneVal))
    /\ UNCHANGED <<adapter, api_key, conversation, model_name, cache, built, op, loc,
                   stream, pulled, nops>>

\* generate_stream_text, first pull: response = self.client.chat(stream=True)
OllamaStreamOpen(c) ==
    /\ adapter = "Ollama"
    /\ pc[c] = "body"
    /\ op[c].name = "generate_stream_text"
    /\ LET model == Or(op[c].llm_model, OLLAMA_DEFAULT_MODEL) IN
       \/ /\ Log(c, CallRec("chat_stream", "client", loc[c].client, model,
                            <<"user">>, <<"prompt">>, TRUE, NoResp))
          /\ stream' = [stream EXCEPT ![c].open = TRUE]
          /\ pc' = [pc EXCEPT ![c] = "iterate"]
          /\ UNCHANGED result
       \/ /\ Log(c, CallRec("chat_stream", "client", loc[c].client, model,
                            <<"user">>, <<"prompt">>, FALSE, NoResp))
          /\ Finish(c, Raised("TransportError", NoneVal))
          /\ UNCHANGED stream
    /\ UNCHANGED <<adapter, api_key, conversation, model_name, cache, built, op, loc,
                   pulled, nops>>

\* `for chunk in response`: the generator asks the transport for its next
\* chunk.  The transport hands one over, ends its sequence (and releases its
\* connection), or fails.
OllamaStreamNext(c) ==
    /\ adapter = "Ollama"
    /\ pc[c] \in {"iterate", "suspended"}
    /\ \/ \E t \in ChunkTexts :
            /\ Len(stream[c].yielded) < MaxChunks
            /\ stream' = [stream EXCEPT ![c].yielded =
                            Append(@, [message |-> [content |-> t]])]
            /\ loc' = [loc EXCEPT ![c].chunk = t]
            /\ pc' = [pc EXCEPT ![c] = "yield"]
            /\ UNCHANGED result
       \/ /\ stream' = [stream EXCEPT ![c].ended = TRUE, ![c].open = FALSE]
          /\ Finish(c, [NoResult EXCEPT !.kind = "return", !.value = "exhausted"])
          /\ UNCHANGED loc
       \/ /\ stream' = [stream EXCEPT ![c].failed = TRUE, ![c].open = FALSE]
          /\ Finish(c, Raised("TransportError", NoneVal))
          /\ UNCHANGED loc
    /\ UNCHANGED <<adapter, api_key, conversation, model_name, cache, built, op, sent,
                   pulled, nops>>

\* chunk["message"]["content"]
ChunkContent(chunk) == chunk.message.content

\* the loop going round without yielding: the chunk never reaches the caller
OllamaStreamYieldDropped(c) ==
    /\ adapter = "Ollama"
    /\ pc[c] = "yield"
    /\ pc' = [pc EXCEPT ![c] = "iterate"]
    /\ UNCHANGED <<adapter, api_key, conversation, model_name, cache, built,
                   op, loc, sent, result, stream, pulled, nops>>

\* `yield chunk["message"]["content"]`: the newest chunk goes to the caller and
\* the generator is suspended until the caller pulls again
OllamaStreamYield(c) ==
    /\ adapter = "Ollama"
    /\ pc[c] = "yield"
    /\ pulled' = [pulled EXCEPT ![c] =
            Append(@, ChunkContent(stream[c].yielded[Len(stream[c].yielded)]))]
    /\ pc' = [pc EXCEPT ![c] = "suspended"]
    /\ UNCHANGED <<adapter, api_key, conversation, model_name, cache, built, op, loc, sent,
                   result, stream, nops>>

\* The caller drops the generator while it is suspended at the yield.  The
\* loop has no finally/close: whether the transport's iterator is finalised
\* (and its connection released) is left to the runtime's garbage collection
\* and the transport.
Abandon(c) ==
    /\ adapter = "Ollama"
    /\ pc[c] = "suspended"
    /\ \E released \in BOOLEAN :
         stream' = [stream EXCEPT ![c].open = ~released]
    /\ Finish(c, [NoResult EXCEPT !.kind = "abandoned"])
    /\ UNCHANGED <<adapter, api_key, conversation, model_name, cache, built, op, loc, sent,
                   pulled, nops>>

Ollama(c) ==
    \/ OllamaSendConversation(c)
    \/ OllamaStructuredResponse(c)
    \/ OllamaGenerateText(c)
    \/ OllamaStreamOpen(c)
    \/ OllamaStreamNext(c)
    \/ OllamaStreamYield(c)
    \/ Abandon(c)

\* ------------------------------------------------------------------ specs
Step(c) == Invoke(c) \/ Acquire(c) \/ Gemini(c) \/ Groq(c) \/ Ollama(c)

\* one caller using the adapter, one operation after another
Next == Step("c1")

Spec == Init /\ [][Next]_vars

\* the callers using the adapter concurrently
NextConcurrent == \E c \in Callers : Step(c)

SpecConcurrent == Init /\ [][NextConcurrent]_vars

\* ----------------------------------------------------- claim vocabulary
IsPrefix(s, t) == Len(s) <= Len(t) /\ \A i \in 1..Len(s) : s[i] = t[i]

\* the texts of the caller's conversation, in conversation order
ConversationTexts(c) ==
    [i \in 1..Len(conversation[c].messages) |-> conversation[c].messages[i].text]

\* the message texts the transport received from the caller's invocation, in
\* the order it received them (a request carrying a list delivers it in order)
RECURSIVE DeliveredFrom(_)
DeliveredFrom(calls) ==
    IF Len(calls) = 0 THEN <<>>
    ELSE DeliveredFrom(SubSeq(calls, 1, Len(calls) - 1)) \o calls[Len(calls)].texts

Delivered(c) == DeliveredFrom(sent[c])

\* requests that name a model (opening a chat session carries no request)
Requests(c) == { i \in 1..Len(sent[c]) : sent[c][i].kind # "start_chat" }

TransportFailed(c) ==
    \/ \E i \in 1..Len(sent[c]) : ~sent[c][i].ok
    \/ stream[c].failed

\* the contents of the chunks the transport has yielded so far
YieldedContents(c) ==
    [i \in 1..Len(stream[c].yielded) |-> stream[c].yielded[i].message.content]

\* error types of the canonical taxonomy, with the types the code uses for them
ProviderRequestErrors == {"ProviderRequestError", "RuntimeError"}
ConfigurationErrors == {"ConfigurationError", "ValueError"}
InputValidationErrors ==
    {"InputValidationError", "ValueError", "TypeError", "IndexError"}
TransportErrors == {"TransportError", "DecodingError"}

\* ------------------------------------------------------------------ claims

\* C1: whenever a transport call made during an operation fails (a replay
\* call and a failure between two streamed chunks included), the caller
\* observes a ProviderRequestError carrying the original cause; no raw
\* transport exception reaches the caller.
C1_TransportFailureWrapped ==
    \A c \in Callers :
        (pc[c] = "done" /\ TransportFailed(c)) =>
            /\ result[c].kind = "raise"
            /\ result[c].type \in ProviderRequestErrors
            /\ result[c].cause \in TransportErrors

\* C2: send_conversation with a conversation of zero messages raises an
\* input-validation error, and no transport call (opening a chat session
\* included) has been made when it is raised.
C2_EmptyConversationRejected ==
    \A c \in Callers :
        (op[c].name = "send_conversation" /\ Len(op[c].messages) = 0) =>
            /\ Len(sent[c]) = 0
            /\ pc[c] = "done" =>
                 /\ result[c].kind = "raise"
                 /\ result[c].type \in InputValidationErrors

\* C3: with a missing credential or host url, the first operation that needs
\* a client handle (raw or structured) fails with a ConfigurationError before
\* any transport handle is built and before any transport call is made.
C3_MissingCredentialFailsFirst ==
    ~Truthy(api_key) =>
        /\ built.client = 0
        /\ built.structured_client = 0
        /\ \A c \in Callers :
            /\ Len(sent[c]) = 0
            /\ (pc[c] = "done" /\ op[c].name # "none"
                  /\ ~BindError(adapter, op[c].name, op[c].llm_model)) =>
                 /\ result[c].kind = "raise"
                 /\ result[c].type \in ConfigurationErrors

\* C4: across any interleaving of operations by concurrent callers, the raw
\* client handle is constructed at most once and the structured client handle
\* at most once, and every access returns the handle built the first time.
C4_HandlesBuiltOnce ==
    /\ built.client <= 1
    /\ built.structured_client <= 1
    /\ \A c \in Callers : loc[c].client <= 1 /\ loc[c].structured <= 1

\* C5: whenever send_conversation returns for a non-empty conversation, the
\* Message has role "assistant", llm_provider equal to the adapter's name, a
\* non-null llm_model, and raw equal to the unmodified response of the final
\* transport call.
C5_ReturnedMessageShape ==
    \A c \in Callers :
        (op[c].name = "send_conversation" /\ result[c].kind = "return"
           /\ Len(op[c].messages) >= 1) =>
            /\ result[c].msg.role = "assistant"
            /\ result[c].msg.llm_provider = NAME(adapter)
            /\ result[c].msg.llm_model # NoneVal
            /\ Len(sent[c]) >= 1
            /\ sent[c][Len(sent[c])].ok
            /\ result[c].msg.raw = sent[c][Len(sent[c])].reply
            /\ result[c].msg.raw \in Responses

\* C5 witness: Gemini returned the Message of a three-message conversation
\* whose replayed messages were answered differently from the final one.
C5_Witness ==
    \E c \in Callers :
        /\ adapter = "Gemini"
        /\ op[c].name = "send_conversation"
        /\ Len(op[c].messages) = 3
        /\ result[c].kind = "return"
        /\ sent[c][2].reply # result[c].msg.raw

\* C6: in send_conversation, structured_response and generate_text the
\* request is made against the per-call override when one is given and the
\* adapter default when none is given, and the Message returned by
\* send_conversation records that same model.
C6_ModelOverrideHonoured ==
    \A c \in Callers :
        op[c].name \in {"send_conversation", "structured_response",
                        "generate_text"} =>
            LET model == Or(op[c].llm_model, DEFAULT_MODEL(adapter)) IN
            /\ \A i \in Requests(c) : sent[c][i].model = model
            /\ (op[c].name = "send_conversation" /\ result[c].kind = "return")
                  => result[c].msg.llm_model = model

\* C7: once the request has gone to the decoder, structured_response either
\* returns an instance of the schema or raises ProviderRequestError, whatever
\* the transport or the decoder returns or raises.
C7_StructuredInstanceOrError ==
    \A c \in Callers :
        (op[c].name = "structured_response" /\ pc[c] = "done"
           /\ Len(sent[c]) >= 1) =>
            \/ result[c].kind = "return" /\ result[c].value = "M_instance"
            \/ result[c].kind = "raise"
                 /\ result[c].type \in ProviderRequestErrors

\* C8: when the caller has abandoned the sequence of generate_stream_text
\* after pulling some of its chunks, the transport stream is released.
C8_AbandonReleases ==
    \A c \in Callers :
        (result[c].kind = "abandoned" /\ Len(pulled[c]) >= 1) =>
            ~stream[c].open

\* C9: the sequence the caller pulls from generate_stream_text is the
\* transport's sequence: same chunks, same order, none dropped, duplicated or
\* merged; it ends when the transport's sequence ends; and the k-th chunk is
\* handed to the caller before the (k+1)-th is requested from the transport.
C9_StreamIsTransportSequence ==
    \A c \in Callers :
        op[c].name = "generate_stream_text" =>
            /\ IsPrefix(pulled[c], YieldedContents(c))
            /\ Len(stream[c].yielded) <= Len(pulled[c]) + 1
            /\ pc[c] = "suspended" => pulled[c] = YieldedContents(c)
            /\ result[c].kind = "return" =>
                 /\ stream[c].ended
                 /\ pulled[c] = YieldedContents(c)
            /\ stream[c].ended => result[c].kind = "return"

\* C9 witness: the transport yielded "Hel", "lo" and ended, and the caller
\* has pulled exactly that.
C9_Witness ==
    \E c \in Callers :
        /\ op[c].name = "generate_stream_text"
        /\ result[c].kind = "return"
        /\ YieldedContents(c) = <<"Hel", "lo">>
        /\ pulled[c] = <<"Hel", "lo">>

\* C10 as stated: send_conversation first replays messages 1..n-1 to the
\* transport in conversation order and only then sends message n: when it
\* returns, the last call carried message n alone and the calls before it
\* had delivered messages 1..n-1.
C10_ReplayedBeforeFinalSend ==
    \A c \in Callers :
        (op[c].name = "send_conversation" /\ Len(op[c].messages) >= 1
           /\ result[c].kind = "return") =>
            LET n == Len(op[c].messages)
                last == sent[c][Len(sent[c])] IN
            /\ last.texts = <<op[c].messages[n].text>>
            /\ DeliveredFrom(SubSeq(sent[c], 1, Len(sent[c]) - 1)) =
                 SubSeq(ConversationTexts(c), 1, n - 1)

\* C10 as amended: for a conversation of n >= 1 messages the transport
\* receives messages 1..n in conversation order, message n last: Gemini sends
\* them one call each, Groq and Ollama in a single request carrying the whole
\* list.  The returned Message is built from the reply of the last call, the
\* one that carried message n, and the conversation's messages are the same
\* after the call as before.
C10_DeliveredInOrder ==
    \A c \in Callers :
        (op[c].name = "send_conversation" /\ Len(op[c].messages) >= 1) =>
            /\ IsPrefix(Delivered(c), ConversationTexts(c))
            /\ conversation[c].messages = op[c].messages
            /\ adapter = "Gemini" =>
                 \A i \in Requests(c) : Len(sent[c][i].texts) = 1
            /\ adapter # "Gemini" =>
                 /\ Len(sent[c]) <= 1
                 /\ \A i \in Requests(c) :
                        sent[c][i].texts = ConversationTexts(c)
            /\ result[c].kind = "return" =>
                 /\ Delivered(c) = ConversationTexts(c)
                 /\ LET last == sent[c][Len(sent[c])] IN
                    /\ last.texts # <<>>
                    /\ last.texts[Len(last.texts)] =
                         op[c].messages[Len(op[c].messages)].text
                    /\ result[c].msg.raw = last.reply
                    /\ result[c].msg.text \in {last.reply.content, ""}

\* C10 witness: Groq or Ollama has answered a three-message conversation with
\* distinct neighbouring texts, sent in its one request.
C10_Witness ==
    \E c \in Callers :
        /\ adapter \in {"Groq", "Ollama"}
        /\ op[c].name = "send_conversation"
        /\ Len(op[c].messages) = 3
        /\ op[c].messages[1].text # op[c].messages[2].text
        /\ op[c].messages[2].text # op[c].messages[3].text
        /\ result[c].kind = "return"
        /\ Len(sent[c]) = 1
        /\ Delivered(c) = ConversationTexts(c)

====
